---------------------------- MODULE Spec2Model ----------------------------
(***************************************************************************)
(* Model of tracker.py: the SQLite-backed record store (tables games and   *)
(* all_kingdom_cards), the delimited-text encoding of the multi-valued     *)
(* columns, and the per-player statistics pass.                            *)
(*                                                                         *)
(* A Python str is modelled as a sequence of one-character strings, so     *)
(* that split, strip, join, int() and str() are computed character by      *)
(* character.  A Python list is a sequence; a dict is a sequence of        *)
(* <<key, value>> pairs in insertion order with distinct keys.             *)
(***************************************************************************)
EXTENDS Integers, Sequences, FiniteSets, TLC

(***************************************************************************)
(* Bounds.                                                                 *)
(***************************************************************************)
\* rows the games table may hold before record_game is no longer offered
MaxGames == 2

(***************************************************************************)
(* Characters and strings.                                                 *)
(***************************************************************************)
\* the characters used by the modelled inputs, in code-point order
Alphabet == << " ", "+", ",", "-", "0", "1", "2", "3", "4", "5", "6", "7",
               "8", "9", ":", ";", "A", "B", "C", "M", "P", "V", "X", "x" >>

Digits == << "0", "1", "2", "3", "4", "5", "6", "7", "8", "9" >>

CharOrd(c) == CHOOSE i \in 1..Len(Alphabet) : Alphabet[i] = c

DigitVal(c) == (CHOOSE i \in 1..Len(Digits) : Digits[i] = c) - 1

IsDigit(c) == \E i \in 1..Len(Digits) : Digits[i] = c

Range(s) == { s[i] : i \in 1..Len(s) }

Contains(list, x) == \E i \in 1..Len(list) : list[i] = x

\* str < str, lexicographic by code point (sorted(), ORDER BY card_name)
RECURSIVE StrLess(_, _)
StrLess(s, t) ==
    IF t = << >> THEN FALSE
    ELSE IF s = << >> THEN TRUE
    ELSE IF s[1] # t[1] THEN CharOrd(s[1]) < CharOrd(t[1])
    ELSE StrLess(Tail(s), Tail(t))

\* insert x into the sorted list keeping it sorted, after its equals (stable)
RECURSIVE SortedInsert(_, _)
SortedInsert(list, x) ==
    IF list = << >> THEN << x >>
    ELSE IF StrLess(x, Head(list)) THEN << x >> \o list
    ELSE << Head(list) >> \o SortedInsert(Tail(list), x)

\* sorted(list)
RECURSIVE Sorted(_)
Sorted(list) ==
    IF list = << >> THEN << >>
    ELSE SortedInsert(Sorted(SubSeq(list, 1, Len(list) - 1)), list[Len(list)])

\* s.strip(), the only whitespace of the alphabet being the space
RECURSIVE Strip(_)
Strip(s) ==
    IF s = << >> THEN s
    ELSE IF Head(s) = " " THEN Strip(Tail(s))
    ELSE IF s[Len(s)] = " " THEN Strip(SubSeq(s, 1, Len(s) - 1))
    ELSE s

\* s.split(sep): always at least one piece, empty pieces kept
RECURSIVE Split(_, _)
Split(s, sep) ==
    IF sep \notin Range(s) THEN << s >>
    ELSE LET cut == CHOOSE i \in 1..Len(s) :
                       s[i] = sep /\ \A j \in 1..(i - 1) : s[j] # sep
         IN  << SubSeq(s, 1, cut - 1) >> \o Split(SubSeq(s, cut + 1, Len(s)), sep)

\* sep.join(list)
RECURSIVE Join(_, _)
Join(sep, list) ==
    IF list = << >> THEN << >>
    ELSE IF Len(list) = 1 THEN list[1]
    ELSE list[1] \o << sep >> \o Join(sep, Tail(list))

\* [p.strip() for p in text.split(',') if p.strip()]
RECURSIVE StripAll(_)
StripAll(list) ==
    IF list = << >> THEN << >>
    ELSE LET piece == Strip(Head(list))
         IN  (IF piece = << >> THEN << >> ELSE << piece >>) \o StripAll(Tail(list))

CommaList(text) == StripAll(Split(text, ","))

\* value of a non-empty digit string
RECURSIVE DigitsToNat(_)
DigitsToNat(s) ==
    IF s = << >> THEN 0
    ELSE 10 * DigitsToNat(SubSeq(s, 1, Len(s) - 1)) + DigitVal(s[Len(s)])

AllDigits(s) == s # << >> /\ \A i \in 1..Len(s) : IsDigit(s[i])

\* int(s.strip()): optional sign then digits; ok = FALSE stands for ValueError
ParseInt(s) ==
    LET body == Strip(s)
        bad  == [ok |-> FALSE, val |-> 0]
    IN  IF body = << >> THEN bad
        ELSE IF Head(body) = "-"
             THEN IF AllDigits(Tail(body))
                  THEN [ok |-> TRUE, val |-> 0 - DigitsToNat(Tail(body))]
                  ELSE bad
        ELSE IF Head(body) = "+"
             THEN IF AllDigits(Tail(body))
                  THEN [ok |-> TRUE, val |-> DigitsToNat(Tail(body))]
                  ELSE bad
        ELSE IF AllDigits(body) THEN [ok |-> TRUE, val |-> DigitsToNat(body)]
        ELSE bad

\* decimal digits of a natural number
RECURSIVE NatToStr(_)
NatToStr(n) ==
    IF n < 10 THEN << Digits[n + 1] >>
    ELSE NatToStr(n \div 10) \o << Digits[(n % 10) + 1] >>

\* f"{v}" for an int
IntToStr(v) == IF v < 0 THEN << "-" >> \o NatToStr(0 - v) ELSE NatToStr(v)

(***************************************************************************)
(* dict and defaultdict(int).                                              *)
(***************************************************************************)
DictKeys(d) == { d[i][1] : i \in 1..Len(d) }

DictGet(d, k) == d[CHOOSE i \in 1..Len(d) : d[i][1] = k][2]

\* d[k] = v: an existing key keeps its position, a new key is appended
DictSet(d, k, v) ==
    IF k \in DictKeys(d)
    THEN [i \in 1..Len(d) |-> IF d[i][1] = k THEN << k, v >> ELSE d[i]]
    ELSE Append(d, << k, v >>)

\* defaultdict(int) read: a missing key reads as 0
DefaultGet(d, k) == IF k \in DictKeys(d) THEN DictGet(d, k) ELSE 0

(***************************************************************************)
(* record_game: parsing of the prompts and encoding of the columns.        *)
(***************************************************************************)
\* the loop over score_pairs; stops at the first non-integer score, which
\* raises ValueError out of the loop
RECURSIVE ScoreLoop(_, _)
ScoreLoop(score_pairs, acc) ==
    IF score_pairs = << >> \/ acc.error THEN acc
    ELSE LET sp    == Head(score_pairs)
             parts == Split(sp, ":")
         IN  IF Len(parts) = 2
             THEN LET player_name == Strip(parts[1])
                      score_val   == ParseInt(Strip(parts[2]))
                  IN  IF score_val.ok
                      THEN ScoreLoop(Tail(score_pairs),
                               [acc EXCEPT !.dict =
                                   DictSet(acc.dict, player_name, score_val.val)])
                      ELSE [acc EXCEPT !.error = TRUE]
             ELSE ScoreLoop(Tail(score_pairs),
                      [acc EXCEPT !.warnings =
                          Append(acc.warnings, << "malformed score entry", sp >>)])

ParseScores(scores_input) ==
    ScoreLoop(CommaList(scores_input),
              [dict |-> << >>, warnings |-> << >>, error |-> FALSE])

\* variant: recognition only warns, every entered card is kept
RECURSIVE ValidateCardsKeepAll(_, _)
ValidateCardsKeepAll(entered_kingdom_cards, known_cards) ==
    IF entered_kingdom_cards = << >>
    THEN [cards |-> << >>, warnings |-> << >>]
    ELSE LET card == Head(entered_kingdom_cards)
             rest == ValidateCardsKeepAll(Tail(entered_kingdom_cards), known_cards)
         IN  IF Contains(known_cards, card)
             THEN [rest EXCEPT !.cards = << card >> \o rest.cards]
             ELSE [rest EXCEPT !.cards = << card >> \o rest.cards,
                               !.warnings =
                      << << "unrecognized card", card >> >> \o rest.warnings]

\* the loop over entered_kingdom_cards: known cards are kept, the others
\* are warned about
RECURSIVE ValidateCards(_, _)
ValidateCards(entered_kingdom_cards, known_cards) ==
    IF entered_kingdom_cards = << >>
    THEN [cards |-> << >>, warnings |-> << >>]
    ELSE LET card == Head(entered_kingdom_cards)
             rest == ValidateCards(Tail(entered_kingdom_cards), known_cards)
         IN  IF Contains(known_cards, card)
             THEN [rest EXCEPT !.cards = << card >> \o rest.cards]
             ELSE [rest EXCEPT !.warnings =
                      << << "unrecognized card", card >> >> \o rest.warnings]

\* ';'.join(list)
EncodeList(list) == Join(";", list)

\* ';'.join([f"{k}:{v}" for k, v in scores_dict.items()])
EncodeScores(scores_dict) ==
    Join(";", [i \in 1..Len(scores_dict) |->
                  scores_dict[i][1] \o << ":" >> \o IntToStr(scores_dict[i][2])])

(***************************************************************************)
(* load_game_data: decoding of the columns.                                *)
(***************************************************************************)
\* variant: cell.split(';') without the test for the empty cell
DecodeListNoEmptyTest(cell) == Split(cell, ";")

\* cell.split(';') if cell else []
DecodeList(cell) == IF cell = << >> THEN << >> ELSE Split(cell, ";")

\* the loop over scores_str.split(';')
RECURSIVE DecodeScoreLoop(_, _, _)
DecodeScoreLoop(entries, game_id, acc) ==
    IF entries = << >> THEN acc
    ELSE LET s     == Head(entries)
             parts == Split(s, ":")
         IN  IF Len(parts) = 2
             THEN LET val == ParseInt(Strip(parts[2]))
                  IN  IF val.ok
                      THEN DecodeScoreLoop(Tail(entries), game_id,
                               [acc EXCEPT !.dict =
                                   DictSet(acc.dict, Strip(parts[1]), val.val)])
                      ELSE DecodeScoreLoop(Tail(entries), game_id,
                               [acc EXCEPT !.warnings = Append(acc.warnings,
                                   << "could not parse score", s, game_id >>)])
             ELSE DecodeScoreLoop(Tail(entries), game_id, acc)

DecodeScores(scores_str, game_id) ==
    IF scores_str = << >>
    THEN [dict |-> << >>, warnings |-> << >>]
    ELSE DecodeScoreLoop(Split(scores_str, ";"), game_id,
                         [dict |-> << >>, warnings |-> << >>])

\* one row of the result set as the dict appended to games
DecodeRow(row) ==
    [ id       |-> row.id,
      date     |-> row.game_date,
      players  |-> DecodeList(row.players),
      winners  |-> DecodeList(row.winners),
      scores   |-> DecodeScores(row.scores, row.id).dict,
      kingdom_cards   |-> DecodeList(row.kingdom_cards),
      expansions_used |-> DecodeList(row.expansions_used),
      notes    |-> row.notes ]

\* variant: the rows newest first
LoadGameDataNewestFirst(rows) ==
    [i \in 1..Len(rows) |-> DecodeRow(rows[Len(rows) + 1 - i])]

\* load_game_data(): the rows in rowid order, each decoded
LoadGameData(rows) == [i \in 1..Len(rows) |-> DecodeRow(rows[i])]

\* the warnings load_game_data() prints, in order
RECURSIVE LoadWarnings(_)
LoadWarnings(rows) ==
    IF rows = << >> THEN << >>
    ELSE DecodeScores(Head(rows).scores, Head(rows).id).warnings
            \o LoadWarnings(Tail(rows))

(***************************************************************************)
(* view_player_stats: the accumulation over the loaded games.              *)
(***************************************************************************)
\* for player, score in scores.items()
RECURSIVE ScoresPass(_, _)
ScoresPass(items, acc) ==
    IF items = << >> THEN acc
    ELSE LET player  == Head(items)[1]
             score   == Head(items)[2]
             old_max == DefaultGet(acc.player_max_score, player)
         IN  ScoresPass(Tail(items),
               [acc EXCEPT
                  !.player_games = DictSet(@, player, DefaultGet(@, player) + 1),
                  !.player_total_score =
                        DictSet(@, player, DefaultGet(@, player) + score),
                  !.player_max_score =
                        DictSet(@, player,
                                IF score > old_max THEN score ELSE old_max)])

\* for winner in winners
RECURSIVE WinnersPass(_, _, _)
WinnersPass(winners, game, acc) ==
    IF winners = << >> THEN acc
    ELSE LET winner == Head(winners)
         IN  IF winner \in DictKeys(acc.player_games)
             THEN WinnersPass(Tail(winners), game,
                     [acc EXCEPT !.player_wins =
                         DictSet(@, winner, DefaultGet(@, winner) + 1)])
             ELSE WinnersPass(Tail(winners), game,
                     [acc EXCEPT !.warnings = Append(@,
                         << "winner not found", winner, game.id >>)])

\* for game in games
RECURSIVE GamesPass(_, _)
GamesPass(loaded, acc) ==
    IF loaded = << >> THEN acc
    ELSE LET game == Head(loaded)
         IN  GamesPass(Tail(loaded),
                 WinnersPass(game.winners, game, ScoresPass(game.scores, acc)))

Accumulate(loaded) ==
    GamesPass(loaded, [ player_wins        |-> << >>,
                        player_games       |-> << >>,
                        player_total_score |-> << >>,
                        player_max_score   |-> << >>,
                        warnings           |-> << >> ])

\* the block printed per player, for player in sorted(player_games.keys())
PlayerStats(loaded) ==
    LET acc   == Accumulate(loaded)
        names == Sorted([i \in 1..Len(acc.player_games) |-> acc.player_games[i][1]])
    IN  [i \in 1..Len(names) |->
            [ player      |-> names[i],
              total_games |-> DefaultGet(acc.player_games, names[i]),
              wins        |-> DefaultGet(acc.player_wins, names[i]),
              total_score |-> DefaultGet(acc.player_total_score, names[i]),
              max_score   |-> DefaultGet(acc.player_max_score, names[i]) ]]

(***************************************************************************)
(* The program: the database file and the menu loop.                       *)
(***************************************************************************)
VARIABLES
    pc,                 \* "stopped": no process; "menu": main() is at its prompt
    tables,             \* TRUE once create_tables() has created both tables
    games,              \* rows of table games, in rowid order
    games_seq,          \* AUTOINCREMENT counter of games (sqlite_sequence)
    all_kingdom_cards,  \* card_name column of all_kingdom_cards, in rowid order
    initial_cards,      \* the initial_cards list of seed_kingdom_cards
    out,                \* what the last operation returned and printed
    handed              \* history: the values record_game handed to each INSERT

vars == << pc, tables, games, games_seq, all_kingdom_cards, initial_cards,
           out, handed >>

db == << tables, games, games_seq, all_kingdom_cards >>

Result(op, result, warnings, value) ==
    [op |-> op, result |-> result, warnings |-> warnings, value |-> value]

\* get_all_known_kingdom_cards(): SELECT card_name ... ORDER BY card_name
GetAllKnownKingdomCards(cards) == Sorted(cards)

\* variant: card_name without UNIQUE
InsertCardNoUnique(cards, card_name) ==
    [ok |-> TRUE, cards |-> Append(cards, card_name)]

\* INSERT INTO all_kingdom_cards under card_name TEXT UNIQUE: the row is
\* appended, or IntegrityError is raised (ok = FALSE) and nothing changes
InsertCard(cards, card_name) ==
    IF Contains(cards, card_name)
    THEN [ok |-> FALSE, cards |-> cards]
    ELSE [ok |-> TRUE, cards |-> Append(cards, card_name)]

\* for card_name in sorted(initial_cards): try INSERT, except IntegrityError: pass
RECURSIVE SeedLoop(_, _)
SeedLoop(names, cards) ==
    IF names = << >> THEN cards
    ELSE SeedLoop(Tail(names), InsertCard(cards, Head(names)).cards)

\* seed_kingdom_cards(): the table after the call
SeedKingdomCards(cards, defaults) ==
    IF Len(cards) = 0 THEN SeedLoop(Sorted(defaults), cards) ELSE cards

\* id INTEGER PRIMARY KEY AUTOINCREMENT: one more than the largest rowid the
\* table has ever held
NewRowid(seq) == seq + 1


\* variant: a failed INSERT still uses up an id
InsertGameBurnsId(rows, seq, cells, db_ok) ==
    IF db_ok
    THEN [ok   |-> TRUE,
          rows |-> Append(rows, [cells EXCEPT !.id = NewRowid(seq)]),
          seq  |-> NewRowid(seq)]
    ELSE [ok |-> FALSE, rows |-> rows, seq |-> NewRowid(seq)]

\* cursor.execute(INSERT INTO games ...) and conn.commit(); on sqlite3.Error
\* (db_ok = FALSE) the connection is closed without a commit
InsertGame(rows, seq, cells, db_ok) ==
    IF db_ok
    THEN [ok   |-> TRUE,
          rows |-> Append(rows, [cells EXCEPT !.id = NewRowid(seq)]),
          seq  |-> NewRowid(seq)]
    ELSE [ok |-> FALSE, rows |-> rows, seq |-> seq]

\* the cells of the row record_game inserts (id is assigned by the table)
EncodeRow(game_date, players, winners, scores_dict, cards, expansions, notes) ==
    [ id              |-> 0,
      game_date       |-> game_date,
      players         |-> EncodeList(players),
      winners         |-> EncodeList(winners),
      scores          |-> EncodeScores(scores_dict),
      kingdom_cards   |-> EncodeList(cards),
      expansions_used |-> EncodeList(expansions),
      notes           |-> notes ]

\* game_date: datetime.now() formatted; the cell is stored and never parsed
Dates == { "2026-11-03" }

\* contents of the initial_cards list, which the source invites the owner to
\* extend: the names distinct, or a name repeated (the case lines 78-80 of
\* the source provide for); M and V stand for listed cards
Defaults ==
    { << <<"V">>, <<"M">> >>,
      << <<"M">>, <<"M">> >>,
      << <<"V">>, <<"M">>, <<"V">> >> }

Init ==
    /\ pc = "stopped"
    /\ tables = FALSE
    /\ games = << >>
    /\ games_seq = 0
    /\ all_kingdom_cards = << >>
    /\ initial_cards \in Defaults
    /\ out = Result("none", "none", << >>, << >>)
    /\ handed = << >>

\* main() up to its first prompt: create_tables() then seed_kingdom_cards()
Main ==
    /\ pc = "stopped"
    /\ pc' = "menu"
    /\ tables' = TRUE
    /\ all_kingdom_cards' = SeedKingdomCards(all_kingdom_cards, initial_cards)
    /\ out' = Result("seed_kingdom_cards",
                     IF Len(all_kingdom_cards) = 0 THEN "seeded"
                                                   ELSE "already populated",
                     << >>, all_kingdom_cards)
    /\ UNCHANGED << games, games_seq, initial_cards, handed >>

\* choice '1': record_game(); typed holds the text entered at each prompt
RecordGame(game_date, typed, db_ok) ==
    /\ pc = "menu"
    /\ Len(games) < MaxGames
    /\ LET players     == CommaList(typed.players)
           winners     == CommaList(typed.winners)
           parsed      == ParseScores(typed.scores)
           known_cards == GetAllKnownKingdomCards(all_kingdom_cards)
           entered     == CommaList(typed.kingdom_cards)
           validated   == ValidateCards(entered, known_cards)
           expansions  == IF typed.expansions # << >>
                          THEN CommaList(typed.expansions) ELSE << >>
           cells       == EncodeRow(game_date, players, winners, parsed.dict,
                                    validated.cards, expansions, typed.notes)
           inserted    == InsertGame(games, games_seq, cells, db_ok)
           Return(result, warnings) ==
               /\ out' = Result("record_game", result, warnings, typed)
               /\ UNCHANGED << games, games_seq, handed >>
       IN  IF players = << >> THEN Return("no players", << >>)
           ELSE IF winners = << >> THEN Return("no winners", << >>)
           ELSE IF parsed.error THEN Return("invalid score", parsed.warnings)
           ELSE IF parsed.dict = << >> THEN Return("no scores", parsed.warnings)
           ELSE IF validated.cards = << >>
                THEN Return("no valid cards",
                            parsed.warnings \o validated.warnings)
           ELSE /\ games' = inserted.rows
                /\ games_seq' = inserted.seq
                /\ handed' = IF inserted.ok
                             THEN Append(handed,
                                    [ game_date       |-> game_date,
                                      notes           |-> typed.notes,
                                      players         |-> players,
                                      winners         |-> winners,
                                      scores          |-> parsed.dict,
                                      kingdom_cards   |-> validated.cards,
                                      expansions_used |-> expansions ])
                             ELSE handed
                /\ out' = Result("record_game",
                                 IF inserted.ok THEN "recorded"
                                                ELSE "database error",
                                 parsed.warnings \o validated.warnings, typed)
    /\ UNCHANGED << pc, tables, all_kingdom_cards, initial_cards >>

\* variant: IntegrityError is not told apart from success
AddKingdomCardAlwaysTrue(cards, card_name, db_ok) ==
    IF ~db_ok THEN [ret |-> FALSE, cards |-> cards, printed |-> "error"]
    ELSE [ret |-> TRUE, cards |-> InsertCard(cards, card_name).cards,
          printed |-> "added"]

\* add_kingdom_card(card_name): the table after the call and the value returned
AddKingdomCard(cards, card_name, db_ok) ==
    IF ~db_ok THEN [ret |-> FALSE, cards |-> cards, printed |-> "error"]
    ELSE LET inserted == InsertCard(cards, card_name)
         IN  IF inserted.ok
             THEN [ret |-> TRUE, cards |-> inserted.cards, printed |-> "added"]
             ELSE [ret |-> FALSE, cards |-> cards, printed |-> "already exists"]

\* choice '4' then '2': manage_kingdom_cards() reads a name and adds it
ManageAdd(text, db_ok) ==
    /\ pc = "menu"
    /\ LET new_card == Strip(text)
           added    == AddKingdomCard(all_kingdom_cards, new_card, db_ok)
       IN  IF new_card # << >>
           THEN /\ all_kingdom_cards' = added.cards
                /\ out' = Result("add_kingdom_card", added.printed, << >>,
                                 [card_name |-> new_card, ret |-> added.ret])
           ELSE /\ out' = Result("manage_kingdom_cards", "empty name", << >>, << >>)
                /\ UNCHANGED all_kingdom_cards
    /\ UNCHANGED << pc, tables, games, games_seq, initial_cards, handed >>

\* choice '4' then '1': the known cards are listed
ManageView ==
    /\ pc = "menu"
    /\ out' = Result("manage_kingdom_cards", "listed", << >>,
                     GetAllKnownKingdomCards(all_kingdom_cards))
    /\ UNCHANGED << pc, db, initial_cards, handed >>

\* choice '2': view_all_games()
ViewAllGames ==
    /\ pc = "menu"
    /\ out' = Result("view_all_games",
                     IF games = << >> THEN "no games" ELSE "shown",
                     LoadWarnings(games), LoadGameData(games))
    /\ UNCHANGED << pc, db, initial_cards, handed >>

\* choice '3': view_player_stats()
ViewPlayerStats ==
    /\ pc = "menu"
    /\ LET loaded == LoadGameData(games)
           stats  == PlayerStats(loaded)
       IN  out' = Result("view_player_stats",
                         IF loaded = << >> THEN "no games"
                         ELSE IF stats = << >> THEN "no player data"
                         ELSE "shown",
                         LoadWarnings(games) \o Accumulate(loaded).warnings,
                         stats)
    /\ UNCHANGED << pc, db, initial_cards, handed >>

\* choice '5': the process ends; the database file stays
Exit ==
    /\ pc = "menu"
    /\ pc' = "stopped"
    /\ out' = Result("exit", "none", << >>, << >>)
    /\ UNCHANGED << db, initial_cards, handed >>


(***************************************************************************)
(* Specifications.  The three of them run the same program and differ in   *)
(* the text typed at the prompts.                                          *)
(***************************************************************************)
Typed(players, winners, scores, kingdom_cards, expansions) ==
    [ players       |-> players,
      winners       |-> winners,
      scores        |-> scores,
      kingdom_cards |-> kingdom_cards,
      expansions    |-> expansions,
      notes         |-> << >> ]

\* "A,B" / "A" / "A:7,B:3" / "M" / ""
BaseTyped ==
    Typed(<<"A", ",", "B">>, <<"A">>,
          <<"A", ":", "7", ",", "B", ":", "3">>, <<"M">>, << >>)

\* Store: the card prompt and the card menu vary; some games are aborted
StoreTyped ==
    { [BaseTyped EXCEPT !.kingdom_cards = k] :
        k \in { <<"M">>,                          \* "M"
                <<"M", ",", "X">>,                \* "M,X"
                <<"X">>,                          \* "X"
                <<"V", ",", " ", "M">> } }        \* "V, M"
    \cup { [BaseTyped EXCEPT !.players = << >>],              \* no players
           [BaseTyped EXCEPT !.scores = <<"A", ":", "x">>] }  \* "A:x"

StoreNames == { <<"X">>, <<" ", "M">>, << >> }

Next ==
    \/ Main
    \/ \E game_date \in Dates, typed \in StoreTyped, db_ok \in BOOLEAN :
           RecordGame(game_date, typed, db_ok)
    \/ \E text \in StoreNames, db_ok \in BOOLEAN : ManageAdd(text, db_ok)
    \/ ManageView
    \/ ViewAllGames
    \/ ViewPlayerStats
    \/ Exit

Spec == Init /\ [][Next]_vars

(***************************************************************************)
(* Properties of the record store, checked under Spec.                     *)
(***************************************************************************)
NoDuplicates(list) ==
    \A i, j \in 1..Len(list) : i # j => list[i] # list[j]

\* nextId(): derived from the persisted counter of table games
NextId == NewRowid(games_seq)

RecordGameStep == out'.op = "record_game"

SavedStep == RecordGameStep /\ out'.result = "recorded"

\* C3: after N successful saves the stored ids are exactly 1..N in save
\* order and the next id is N + 1; the next id is a function of the database
\* alone, so it is the same after the process exits and starts again, and a
\* failed or aborted record_game does not advance it.
C3_IdsUniqueNeverReused ==
    /\ [](/\ Len(games) = Len(handed)
          /\ \A i \in 1..Len(games) : games[i].id = i
          /\ NextId = Len(handed) + 1)
    /\ [][(pc' # pc \/ (RecordGameStep /\ ~SavedStep)) => NextId' = NextId]_vars
    /\ [][SavedStep => /\ games'[Len(games')].id = NextId
                       /\ NextId' = NextId + 1]_vars

\* C3 witness: a save has failed on a database that already holds a record
C3_Witness ==
    /\ out.op = "record_game"
    /\ out.result = "database error"
    /\ Len(games) >= 1
    /\ NextId = Len(games) + 1

AddStep == out'.op = "add_kingdom_card"

\* C4 as claimed: add_kingdom_card inserts the name and returns True whenever
\* the name is absent, returns False and changes nothing when it is present,
\* and the catalog never holds a name twice.
C4_AsClaimed ==
    /\ [](NoDuplicates(all_kingdom_cards))
    /\ [][AddStep =>
            LET name == out'.value.card_name
            IN  IF Contains(all_kingdom_cards, name)
                THEN /\ out'.value.ret = FALSE
                     /\ all_kingdom_cards' = all_kingdom_cards
                ELSE /\ out'.value.ret = TRUE
                     /\ all_kingdom_cards' = Append(all_kingdom_cards, name)]_vars

\* C4 amended: add_kingdom_card inserts the name and returns True when the
\* name is absent and the INSERT raises no other sqlite3.Error; it returns
\* False and leaves the catalog unchanged when the name is present or when
\* the INSERT fails; the catalog never holds a name twice.
C4_AddKnownCard ==
    /\ [](NoDuplicates(all_kingdom_cards))
    /\ [][AddStep =>
            LET name == out'.value.card_name
            IN  IF Contains(all_kingdom_cards, name) \/ out'.result = "error"
                THEN /\ out'.value.ret = FALSE
                     /\ all_kingdom_cards' = all_kingdom_cards
                ELSE /\ out'.value.ret = TRUE
                     /\ all_kingdom_cards' = Append(all_kingdom_cards, name)]_vars

\* C4 witness: the second of two calls with the same name has returned False
C4_Witness ==
    /\ out.op = "add_kingdom_card"
    /\ out.result = "already exists"
    /\ out.value.ret = FALSE
    /\ out.value.card_name = <<"X">>
    /\ Contains(all_kingdom_cards, <<"X">>)

SeedStep == out'.op = "seed_kingdom_cards"

\* C5: seed_kingdom_cards changes nothing when the catalog holds a name, and
\* on an empty catalog inserts each distinct name of initial_cards exactly
\* once, also when initial_cards repeats a name.
C5_SeedOnlyIfEmpty ==
    [][SeedStep =>
         IF all_kingdom_cards # << >>
         THEN all_kingdom_cards' = all_kingdom_cards
         ELSE /\ Range(all_kingdom_cards') = Range(initial_cards)
              /\ NoDuplicates(all_kingdom_cards')]_vars

\* C5 witness: the seed has run on a catalog that add_kingdom_card had
\* extended, for an initial_cards list that repeats a name
C5_Witness ==
    /\ out.op = "seed_kingdom_cards"
    /\ out.result = "already populated"
    /\ ~NoDuplicates(initial_cards)
    /\ Contains(all_kingdom_cards, <<"X">>)
    /\ Len(all_kingdom_cards) = Cardinality(Range(initial_cards)) + 1

\* the names typed at the card prompt, and those of them the catalog lacks
EnteredCards(typed) == CommaList(typed.kingdom_cards)

Unrecognized(typed, cards) ==
    { c \in Range(EnteredCards(typed)) : ~Contains(cards, c) }

\* record_game got as far as the card prompt and the INSERT did not fail
CardStep ==
    RecordGameStep /\ out'.result \in { "recorded", "no valid cards" }

\* C6 as claimed: a card that is not in the catalog is warned about, and the
\* record is still saved with that card among its stored kingdom cards.
C6_AsClaimed ==
    [][CardStep =>
         \A c \in Unrecognized(out'.value, all_kingdom_cards) :
            /\ << "unrecognized card", c >> \in Range(out'.warnings)
            /\ Len(games') = Len(games) + 1
            /\ Contains(DecodeList(games'[Len(games')].kingdom_cards), c)]_vars

\* C6 amended: a card that is not in the catalog is warned about and left
\* out of the record; the record is saved (unless the INSERT fails) with
\* exactly the recognized cards, in the order entered, when there is at
\* least one, and is not saved when there is none.
C6_UnrecognizedCardsDropped ==
    [][CardStep =>
         LET entered    == EnteredCards(out'.value)
             recognized == SelectSeq(entered,
                               LAMBDA c : Contains(all_kingdom_cards, c))
         IN  /\ \A c \in Unrecognized(out'.value, all_kingdom_cards) :
                    << "unrecognized card", c >> \in Range(out'.warnings)
             /\ IF recognized = << >>
                THEN out'.result = "no valid cards" /\ games' = games
                ELSE /\ out'.result = "recorded"
                     /\ Len(games') = Len(games) + 1
                     /\ games'[Len(games')].kingdom_cards = Join(";", recognized)
                     /\ handed'[Len(handed')].kingdom_cards = recognized]_vars

\* C6 witness: "M,X" was entered while X was not in the catalog, and the
\* record was saved
C6_Witness ==
    /\ out.op = "record_game"
    /\ out.result = "recorded"
    /\ out.value.kingdom_cards = <<"M", ",", "X">>
    /\ << "unrecognized card", <<"X">> >> \in Range(out.warnings)
    /\ ~Contains(all_kingdom_cards, <<"X">>)
    /\ games[Len(games)].kingdom_cards = <<"M">>

\* what load_game_data returns for the i-th record handed to the INSERT
LoadedAs(h, id) ==
    DecodeRow([EncodeRow(h.game_date, h.players, h.winners, h.scores,
                         h.kingdom_cards, h.expansions_used, h.notes)
                  EXCEPT !.id = id])

\* C8: load_game_data returns exactly the successfully saved records, one
\* per save, in the order saved; no operation changes, removes or reorders
\* a record saved earlier.
C8_AppendOnlyInOrder ==
    /\ [](LET loaded == LoadGameData(games)
          IN  /\ Len(loaded) = Len(handed)
              /\ \A i \in 1..Len(loaded) : loaded[i] = LoadedAs(handed[i], i))
    /\ [][/\ Len(games') >= Len(games)
          /\ \A i \in 1..Len(games) :
                LoadGameData(games')[i] = LoadGameData(games)[i]]_vars
    /\ [][SavedStep <=> Len(games') = Len(games) + 1]_vars
    /\ [][~SavedStep => games' = games]_vars

\* C8 witness: two different records are stored and a catalog operation
\* has followed
C8_Witness ==
    /\ Len(games) = 2
    /\ games[1].kingdom_cards # games[2].kingdom_cards
    /\ out.op = "add_kingdom_card"
    /\ out.result = "added"
    /\ LoadGameData(games)[1].id = 1
    /\ LoadGameData(games)[2].id = 2

(***************************************************************************)
(* SpecCodec: the same program with the catalog fixed and the text of the  *)
(* list and score prompts varied, one prompt at a time.                    *)
(***************************************************************************)
InitFixed == Init /\ initial_cards = << <<"V">>, <<"M">> >>

CodecTyped ==
    { [BaseTyped EXCEPT !.players = t] :
        t \in { <<" ", "A", " ", ",", " ", ",", "B">>,       \* " A , ,B"
                <<"A", ";", "B">> } }                        \* "A;B"
    \cup
    { [BaseTyped EXCEPT !.winners = t] :
        t \in { <<"A", ",", "B">>,                           \* "A,B"
                <<"B", ":", "A">> } }                        \* "B:A"
    \cup
    { [BaseTyped EXCEPT !.scores = t] :
        t \in { <<"A", ":", "-", "1", "2", ",", "B", ":", "0">>,  \* "A:-12,B:0"
                <<" ", "A", " ", ":", " ", "0", "5", " ", ",", "B", ":", "+", "3">>,
                                                             \* " A : 05 ,B:+3"
                <<"A", ";", "B", ":", "3">>,                 \* "A;B:3"
                <<"A", ":", "7", ",", "A", ":", "9">>,       \* "A:7,A:9"
                <<"B", ",", "A", ":", "1", "0">>,            \* "B,A:10"
                <<"A", ":", "1", ":", "2">> } }              \* "A:1:2"
    \cup
    { [BaseTyped EXCEPT !.kingdom_cards = t] :
        t \in { <<"V", ",", "M">> } }                        \* "V,M"
    \cup
    { [BaseTyped EXCEPT !.expansions = t] :
        t \in { << >>,                                       \* ""
                <<" ">>,                                     \* " "
                <<"P">>,                                     \* "P"
                <<"P", ",", "C">>,                           \* "P,C"
                <<"P", ";", "C">> } }                        \* "P;C"

FixedNames == { <<"M">>, << >> }

NextCodec ==
    \/ Main
    \/ \E game_date \in Dates, typed \in CodecTyped, db_ok \in BOOLEAN :
           RecordGame(game_date, typed, db_ok)
    \/ \E text \in FixedNames, db_ok \in BOOLEAN : ManageAdd(text, db_ok)
    \/ ManageView
    \/ ViewAllGames
    \/ ViewPlayerStats
    \/ Exit

SpecCodec == InitFixed /\ [][NextCodec]_vars

Separators == { ";", ":" }

NoSeparator(list) ==
    \A i \in 1..Len(list) : Range(list[i]) \cap Separators = { }

ScoreKeys(h) == [i \in 1..Len(h.scores) |-> h.scores[i][1]]

\* no element of any multi-valued field of h contains ';' or ':'
Clean(h) ==
    /\ NoSeparator(h.players)
    /\ NoSeparator(h.winners)
    /\ NoSeparator(ScoreKeys(h))
    /\ NoSeparator(h.kingdom_cards)
    /\ NoSeparator(h.expansions_used)

\* g is h again, field by field
RoundTrips(h, g) ==
    /\ g.players = h.players
    /\ g.winners = h.winners
    /\ g.scores = h.scores
    /\ g.kingdom_cards = h.kingdom_cards
    /\ g.expansions_used = h.expansions_used

\* C2: for every record handed to the INSERT and each of its multi-valued
\* fields whose elements contain neither ';' nor ':', load_game_data decodes
\* the stored cell back to the value that was encoded: players, winners,
\* scores (keys, integer values and order), kingdom cards, and expansions,
\* the empty list included.
C2_RoundTrip ==
    \A i \in 1..Len(handed) :
        LET h == handed[i]
            g == LoadGameData(games)[i]
        IN  /\ NoSeparator(h.players) => g.players = h.players
            /\ NoSeparator(h.winners) => g.winners = h.winners
            /\ NoSeparator(ScoreKeys(h)) => g.scores = h.scores
            /\ NoSeparator(h.kingdom_cards) => g.kingdom_cards = h.kingdom_cards
            /\ NoSeparator(h.expansions_used) =>
                   g.expansions_used = h.expansions_used

\* C2 witness: a record with two players, a negative two-digit score and no
\* expansions has been stored, loaded and found equal
C2_Witness ==
    /\ out.op = "view_all_games"
    /\ \E i \in 1..Len(handed) :
          /\ Clean(handed[i])
          /\ handed[i].expansions_used = << >>
          /\ handed[i].scores = << << <<"A">>, -12 >>, << <<"B">>, 0 >> >>
          /\ games[i].scores = <<"A", ":", "-", "1", "2", ";", "B", ":", "0">>
          /\ RoundTrips(handed[i], out.value[i])

\* a stored score entry that is not of the form name:integer
Malformed(entry) ==
    LET parts == Split(entry, ":")
    IN  Len(parts) # 2 \/ ~ParseInt(parts[2]).ok

StoredEntries(row) ==
    IF row.scores = << >> THEN { } ELSE Range(Split(row.scores, ";"))

\* C7 as claimed: load_game_data returns every stored record; each stored
\* score entry that is not of the form name:integer is skipped with a
\* warning naming it, and each well-formed entry is decoded.
C7_AsClaimed ==
    out.op = "view_all_games" =>
        /\ Len(out.value) = Len(games)
        /\ \A i \in 1..Len(games) :
              \A entry \in StoredEntries(games[i]) :
                 IF Malformed(entry)
                 THEN \E w \in Range(out.warnings) :
                         w[2] = entry /\ w[3] = games[i].id
                 ELSE Strip(Split(entry, ":")[1]) \in DictKeys(out.value[i].scores)

(***************************************************************************)
(* SpecStats: the same program with the catalog fixed and the winner and   *)
(* score prompts varied.                                                   *)
(***************************************************************************)
StatsTyped ==
    { [BaseTyped EXCEPT !.winners = w, !.scores = t] :
        w \in { <<"A">>,                                     \* "A"
                <<"B">>,                                     \* "B"
                <<"A", ",", "B">>,                           \* "A,B"
                <<"A", ",", "A">>,                           \* "A,A"
                <<"C">> },                                   \* "C"
        t \in { <<"A", ":", "7", ",", "B", ":", "3">>,       \* "A:7,B:3"
                <<"B", ":", "5">>,                           \* "B:5"
                <<"A", ":", "-", "2">>,                      \* "A:-2"
                <<"A", ":", "0">> } }                        \* "A:0"

NextStats ==
    \/ Main
    \/ \E game_date \in Dates, typed \in StatsTyped, db_ok \in BOOLEAN :
           RecordGame(game_date, typed, db_ok)
    \/ \E text \in FixedNames, db_ok \in BOOLEAN : ManageAdd(text, db_ok)
    \/ ManageView
    \/ ViewAllGames
    \/ ViewPlayerStats
    \/ Exit

SpecStats == InitFixed /\ [][NextStats]_vars

\* occurrences of x in list
RECURSIVE Count(_, _)
Count(list, x) ==
    IF list = << >> THEN 0
    ELSE (IF Head(list) = x THEN 1 ELSE 0) + Count(Tail(list), x)

\* the wins of player counted record by record: an occurrence in a record's
\* winners counts when player is a key of that record's scores
RECURSIVE OwnRecordWins(_, _)
OwnRecordWins(player, loaded) ==
    IF loaded = << >> THEN 0
    ELSE (IF player \in DictKeys(Head(loaded).scores)
          THEN Count(Head(loaded).winners, player) ELSE 0)
         + OwnRecordWins(player, Tail(loaded))

StatsShown == out.op = "view_player_stats" /\ out.result = "shown"

\* C1 as claimed: a winner counts as a win only in a record whose own
\* scores hold the name; a winner absent from the record's scores is warned
\* about and counted for nobody.
C1_AsClaimed ==
    StatsShown =>
        LET loaded == LoadGameData(games)
        IN  /\ \A k \in 1..Len(out.value) :
                  out.value[k].wins = OwnRecordWins(out.value[k].player, loaded)
            /\ \A i \in 1..Len(loaded) :
                  \A w \in Range(loaded[i].winners) :
                     w \notin DictKeys(loaded[i].scores) =>
                        << "winner not found", w, loaded[i].id >>
                            \in Range(out.warnings)

\* the scores recorded for player over all loaded records
ScoresOf(player, loaded) ==
    { DictGet(loaded[i].scores, player) :
        i \in { j \in 1..Len(loaded) : player \in DictKeys(loaded[j].scores) } }

\* C9 as claimed: the highest score shown for a player is one of the
\* player's recorded scores and none of them exceeds it.
C9_AsClaimed ==
    StatsShown =>
        \A k \in 1..Len(out.value) :
            LET recorded == ScoresOf(out.value[k].player, LoadGameData(games))
            IN  /\ out.value[k].max_score \in recorded
                /\ \A x \in recorded : x <= out.value[k].max_score

\* C10 as claimed: for every player shown, 0 <= wins <= games played.
C10_AsClaimed ==
    StatsShown =>
        \A k \in 1..Len(out.value) :
            /\ 0 <= out.value[k].wins
            /\ out.value[k].wins <= out.value[k].total_games

=============================================================================
